---- MODULE Spec2Model ----
(***************************************************************************)
(* A model of dual_net.py: the trainer (DualNetworkTrainer), the           *)
(* statistics collector (StatisticsCollector), the hyperparameter resolver *)
(* (get_default_hyperparams) and the training objective (train_ops).       *)
(*                                                                         *)
(* Numbers that are floats in the program are kept exact: a cost is an     *)
(* integer, a mean is the pair [sum, n] of the sum and the count that      *)
(* Python divides, l2_strength is counted in units of 1e-4 and momentum in *)
(* units of 0.1.                                                           *)
(***************************************************************************)
EXTENDS Integers, Sequences, FiniteSets, TLC

VARIABLES
    \* ---- DualNetworkTrainer and its surroundings
    save_file,      \* self.save_file: None or a path
    disk,           \* the checkpoints on disk, by path
    pc,             \* where the trainer is
    init_from,      \* train()'s argument: None or a path
    logdir,         \* train()'s argument: None or a directory
    num_steps,      \* train()'s argument and local: <<>> is None, <<n>> is n
    source_len,     \* batches the example source yields before OutOfRangeError
    consumed,       \* batches pulled from the example source so far
    signals,        \* OutOfRangeError raised so far
    i,              \* the loop index of train()
    sess,           \* the variables of self.sess: weights and global_step
    stderr,         \* what initialize_weights printed
    training_stats, \* <<>> while unbound, <<collector>> once constructed
    events,         \* what logger.add_summary received, in order
    saves,          \* save_weights() calls made by train()
    nBoot,          \* bootstrap() calls made
    \* ---- a StatisticsCollector used on its own
    stats,          \* the four lists
    ret,            \* the outcome of the last call
    hist,           \* the argument tuples reported since the last collect()
    collected,      \* the argument tuples the last collect() had to aggregate
    \* ---- get_default_hyperparams
    N,              \* go.N, the board size
    overrides,      \* the keyword arguments
    hparams,        \* the mapping returned
    hpc,            \* "args" before the call, "returned" after
    \* ---- train_ops
    hp_in,          \* the hyperparameter set passed in
    tvars,          \* tf.trainable_variables(): name and entries of each
    batch_costs,    \* policy and value cost of the batch
    train_tensors   \* the record train_ops returns, evaluated

trainerVars == <<save_file, disk, pc, init_from, logdir, num_steps, source_len,
                 consumed, signals, i, sess, stderr, training_stats, events,
                 saves, nBoot>>
statsVars == <<stats, ret, hist, collected>>
hparamVars == <<N, overrides, hparams, hpc>>
costVars == <<hp_in, tvars, batch_costs, train_tensors>>
vars == <<trainerVars, statsVars, hparamVars, costVars>>

None == "None"

(***************************************************************************)
(* Bounds of the model.                                                    *)
(***************************************************************************)
MaxSteps == 201       \* the largest explicit num_steps
MaxBatches == 202     \* the longest example source
OwnSteps == 5         \* global_step of a checkpoint found at save_file
OlderSteps == 2       \* global_step of the checkpoint init_from names
MaxBootstraps == 1    \* bootstrap() calls in one behaviour
MaxReports == 2       \* report() calls between two collect() calls

(***************************************************************************)
(* Constants of the program.                                               *)
(***************************************************************************)
EXAMPLES_PER_GENERATION == 2000000
TRAIN_BATCH_SIZE == 16
FlushEvery == 100

Min(a, b) == IF a < b THEN a ELSE b

RECURSIVE Sum(_)
\* Python's sum() of a list
Sum(s) == IF s = <<>> THEN 0 ELSE Head(s) + Sum(Tail(s))

(***************************************************************************)
(* Checkpoints.  A checkpoint holds every variable of the graph: the       *)
(* weights (named by where they came from; with global_step that names     *)
(* them after any number of updates) and global_step.                      *)
(***************************************************************************)
Paths == {"model", "older"}
NoCkpt == [exists |-> FALSE, w |-> "none", global_step |-> 0]
Ckpt(w, g) == [exists |-> TRUE, w |-> w, global_step |-> g]

\* a session whose variables have not been initialized
NoSess == [w |-> "uninitialized", global_step |-> 0]

\* sess.run(tf.global_variables_initializer()): random weights, and
\* global_step = tf.Variable(0, ...)
global_variables_initializer == [w |-> "random", global_step |-> 0]

\* os.path.exists(path + '.meta')
path_exists(d, path) == d[path].exists

\* tf.train.Saver().restore(sess, path): every variable takes the saved value
restore(d, path) == [w |-> d[path].w, global_step |-> d[path].global_step]

\* tf.train.Saver().save(sess, path)
save(d, path, s) == [d EXCEPT ![path] = Ckpt(s.w, s.global_step)]

\* initialize_weights with init_from tried before the trainer's own checkpoint
initialize_weights_init_from_first(sf, d, initfrom, s) ==
    IF initfrom # None
    THEN [ok |-> path_exists(d, initfrom),
          sess |-> IF path_exists(d, initfrom) THEN restore(d, initfrom) ELSE s,
          out |-> <<"Initializing from">>]
    ELSE IF sf # None /\ path_exists(d, sf)
    THEN [ok |-> TRUE, sess |-> restore(d, sf), out |-> <<>>]
    ELSE [ok |-> TRUE, sess |-> global_variables_initializer,
          out |-> <<"Bootstrapping with random weights">>]

\* DualNetworkTrainer.initialize_weights: the session afterwards, what was
\* printed, and whether the restore found its checkpoint (ok)
initialize_weights(sf, d, initfrom, s) ==
    IF sf # None /\ path_exists(d, sf)
    THEN [ok |-> TRUE, sess |-> restore(d, sf), out |-> <<>>]
    ELSE IF initfrom # None
    THEN [ok |-> path_exists(d, initfrom),
          sess |-> IF path_exists(d, initfrom) THEN restore(d, initfrom) ELSE s,
          out |-> <<"Initializing from">>]
    ELSE [ok |-> TRUE, sess |-> global_variables_initializer,
          out |-> <<"Bootstrapping with random weights">>]

\* DualNetworkTrainer.save_weights: ok is FALSE when Saver.save has no path
save_weights(sf, d, s) ==
    IF sf = None THEN [ok |-> FALSE, disk |-> d]
    ELSE [ok |-> TRUE, disk |-> save(d, sf, s)]

(***************************************************************************)
(* StatisticsCollector.                                                    *)
(***************************************************************************)
\* StatisticsCollector.__init__
StatisticsCollector ==
    [policy_costs |-> <<>>, value_costs |-> <<>>,
     regularization_costs |-> <<>>, combined_costs |-> <<>>]

\* report() that forgets the regularization cost
report_three(c, policy_cost, value_cost, regularization_cost, combined_cost) ==
    [policy_costs |-> Append(c.policy_costs, policy_cost),
     value_costs |-> Append(c.value_costs, value_cost),
     regularization_costs |-> c.regularization_costs,
     combined_costs |-> Append(c.combined_costs, combined_cost)]

\* report() that appends nothing
report_nothing(c, policy_cost, value_cost, regularization_cost, combined_cost) ==
    c

\* StatisticsCollector.report
report(c, policy_cost, value_cost, regularization_cost, combined_cost) ==
    [policy_costs |-> Append(c.policy_costs, policy_cost),
     value_costs |-> Append(c.value_costs, value_cost),
     regularization_costs |-> Append(c.regularization_costs, regularization_cost),
     combined_costs |-> Append(c.combined_costs, combined_cost)]

\* sum(l) / len(l), kept exact as the pair Python divides
Mean(l) == [sum |-> Sum(l), n |-> Len(l)]
NoSummary == [avg_pol |-> Mean(<<>>), avg_val |-> Mean(<<>>),
              avg_reg |-> Mean(<<>>), avg_cost |-> Mean(<<>>)]

\* collect() that answers an empty accumulator with a summary of zeros
collect_no_raise(c) ==
    [raised |-> FALSE,
     stats |-> StatisticsCollector,
     summary |-> [avg_pol |-> Mean(c.policy_costs),
                  avg_val |-> Mean(c.value_costs),
                  avg_reg |-> Mean(c.regularization_costs),
                  avg_cost |-> Mean(c.combined_costs)]]

\* collect() that does not reset the lists
collect_keeps_lists(c) ==
    IF \/ Len(c.policy_costs) = 0 \/ Len(c.value_costs) = 0
       \/ Len(c.regularization_costs) = 0 \/ Len(c.combined_costs) = 0
    THEN [raised |-> TRUE, stats |-> c, summary |-> NoSummary]
    ELSE [raised |-> FALSE,
          stats |-> c,
          summary |-> [avg_pol |-> Mean(c.policy_costs),
                       avg_val |-> Mean(c.value_costs),
                       avg_reg |-> Mean(c.regularization_costs),
                       avg_cost |-> Mean(c.combined_costs)]]

\* StatisticsCollector.collect: a division by len() = 0 raises
\* ZeroDivisionError before any list is reset
collect(c) ==
    IF \/ Len(c.policy_costs) = 0 \/ Len(c.value_costs) = 0
       \/ Len(c.regularization_costs) = 0 \/ Len(c.combined_costs) = 0
    THEN [raised |-> TRUE, stats |-> c, summary |-> NoSummary]
    ELSE [raised |-> FALSE,
          stats |-> StatisticsCollector,
          summary |-> [avg_pol |-> Mean(c.policy_costs),
                       avg_val |-> Mean(c.value_costs),
                       avg_reg |-> Mean(c.regularization_costs),
                       avg_cost |-> Mean(c.combined_costs)]]

(***************************************************************************)
(* DualNetworkTrainer.train and bootstrap.                                 *)
(***************************************************************************)
StepChoices == {0, 3, 10, MaxSteps}
BatchChoices == {0, 3, MaxBatches}

\* the optimizer's update without the increment of global_step
minimize_no_count(s) == s

\* one run of train_op: MomentumOptimizer.minimize(combined_cost,
\* global_step=global_step) updates the weights and adds 1 to global_step
minimize(s) == [s EXCEPT !.global_step = @ + 1]

\* range(num_steps) that yields one index too many
LoopContinues_off_by_one(idx, n) == idx <= n

\* for i in range(num_steps): whether the loop has another index
LoopContinues(idx, n) == idx < n

\* a flush at the end of every hundred
FlushDue_at_end(idx) == (idx + 1) % FlushEvery = 0

\* i % 100 == 0
FlushDue(idx) == idx % FlushEvery = 0

\* The values sess.run(train_tensors) returns for batch b.  The costs are
\* computed by the graph from the batch; each is represented by the ordinal
\* of the batch, with combined_cost their sum.  g is the value fetched for
\* global_step.
tensor_values(b, g) ==
    [policy_cost |-> b, value_cost |-> b, l2_cost |-> b,
     combined_cost |-> b + b + b, global_step |-> g]

\* what follows the loop, were a break to skip the final save
after_loop_return_on_break(broke, sf, d, s) ==
    IF broke THEN [ok |-> TRUE, disk |-> d, saved |-> 0]
    ELSE [ok |-> save_weights(sf, d, s).ok,
          disk |-> save_weights(sf, d, s).disk, saved |-> 1]

\* what follows the loop, however it ended: self.save_weights()
after_loop(broke, sf, d, s) ==
    [ok |-> save_weights(sf, d, s).ok,
     disk |-> save_weights(sf, d, s).disk, saved |-> 1]

InitTrainer ==
    /\ save_file \in {None, "model"}
    /\ disk \in {d \in [Paths -> {NoCkpt, Ckpt("own", OwnSteps),
                                  Ckpt("older", OlderSteps)}] :
                    /\ d["model"] \in {NoCkpt, Ckpt("own", OwnSteps)}
                    /\ d["older"] \in {NoCkpt, Ckpt("older", OlderSteps)}}
    /\ pc = "Uninitialized"
    /\ init_from = None
    /\ logdir = None
    /\ num_steps = <<>>
    /\ source_len = 0
    /\ consumed = 0
    /\ signals = 0
    /\ i = 0
    /\ sess = NoSess
    /\ stderr = <<>>
    /\ training_stats = <<>>
    /\ events = <<>>
    /\ saves = 0
    /\ nBoot = 0

\* train(), lines 84-94: the arguments, the default num_steps, the graph and
\* initialize_weights(init_from)
TrainInit ==
    /\ pc = "Uninitialized"
    /\ \E a_init \in {None, "older"}, a_log \in {None, "logs"},
          a_steps \in {<<>>} \cup {<<n>> : n \in StepChoices},
          a_len \in BatchChoices :
         LET r == initialize_weights(save_file, disk, a_init, sess) IN
         /\ init_from' = a_init
         /\ logdir' = a_log
         /\ num_steps' = IF a_steps = <<>>
                         THEN <<EXAMPLES_PER_GENERATION \div TRAIN_BATCH_SIZE>>
                         ELSE a_steps
         /\ source_len' = a_len
         /\ sess' = r.sess
         /\ stderr' = r.out
         /\ pc' = IF r.ok THEN "WeightsLoaded" ELSE "Failed"
    /\ UNCHANGED <<save_file, disk, consumed, signals, i, training_stats,
                   events, saves, nBoot>>

\* train(), lines 95-97: the collector and the log writer, when logging
TrainLogSetup ==
    /\ pc = "WeightsLoaded"
    /\ training_stats' = IF logdir # None THEN <<StatisticsCollector>> ELSE <<>>
    /\ i' = 0
    /\ pc' = "Training"
    /\ UNCHANGED <<save_file, disk, init_from, logdir, num_steps, source_len,
                   consumed, signals, sess, stderr, events, saves, nBoot>>

\* train(), lines 98-114: one iteration whose sess.run succeeds.  The fetch
\* of global_step is not ordered with train_op's increment: it reads the
\* value before it or the value after it.
TrainStep ==
    /\ pc = "Training"
    /\ LoopContinues(i, num_steps[1])
    /\ consumed < source_len
    /\ consumed' = consumed + 1
    /\ sess' = minimize(sess)
    /\ i' = i + 1
    /\ \E g \in {sess.global_step, minimize(sess).global_step} :
         LET tv == tensor_values(consumed + 1, g)
         IN  IF logdir # None
             THEN LET reported == report(training_stats[1], tv.policy_cost,
                                         tv.value_cost, tv.l2_cost,
                                         tv.combined_cost)
                      c == collect(reported)
                  IN  IF FlushDue(i) /\ logdir # None
                      THEN IF c.raised
                           THEN /\ training_stats' = <<c.stats>>
                                /\ events' = events
                                /\ pc' = "Failed"
                           ELSE /\ training_stats' = <<c.stats>>
                                /\ events' = events \o
                                     <<[kind |-> "accuracy_summaries",
                                        summary |-> c.summary,
                                        weights |-> NoSess,
                                        global_step |-> tv.global_step],
                                       [kind |-> "weight_summaries",
                                        summary |-> NoSummary,
                                        weights |-> minimize(sess),
                                        global_step |-> tv.global_step]>>
                                /\ pc' = pc
                      ELSE /\ training_stats' = <<reported>>
                           /\ events' = events
                           /\ pc' = pc
             ELSE UNCHANGED <<training_stats, events, pc>>
    /\ UNCHANGED <<save_file, disk, init_from, logdir, num_steps, source_len,
                   signals, stderr, saves, nBoot>>

\* the outcome of what follows the loop
Finish(broke) ==
    LET r == after_loop(broke, save_file, disk, sess) IN
    /\ disk' = r.disk
    /\ saves' = saves + r.saved
    /\ pc' = IF r.ok THEN "Checkpointed" ELSE "Failed"

\* train(), lines 100-102 and 115: sess.run raises OutOfRangeError, the loop
\* breaks
TrainExhausted ==
    /\ pc = "Training"
    /\ LoopContinues(i, num_steps[1])
    /\ consumed = source_len
    /\ signals' = signals + 1
    /\ Finish(TRUE)
    /\ UNCHANGED <<save_file, init_from, logdir, num_steps, source_len,
                   consumed, i, sess, stderr, training_stats, events, nBoot>>

\* train(), lines 98 and 115: range(num_steps) is used up
TrainLoopEnd ==
    /\ pc = "Training"
    /\ ~LoopContinues(i, num_steps[1])
    /\ Finish(FALSE)
    /\ UNCHANGED <<save_file, init_from, logdir, num_steps, source_len,
                   consumed, signals, i, sess, stderr, training_stats, events,
                   nBoot>>

\* bootstrap() that leaves a checkpoint it finds at the save location
Bootstrap_keeps_existing ==
    /\ pc \in {"Uninitialized", "Checkpointed"}
    /\ nBoot < MaxBootstraps
    /\ nBoot' = nBoot + 1
    /\ disk' = IF save_file # None /\ path_exists(disk, save_file)
               THEN disk
               ELSE save_weights(save_file, disk,
                                 global_variables_initializer).disk
    /\ UNCHANGED <<save_file, pc, init_from, logdir, num_steps, source_len,
                   consumed, signals, i, sess, stderr, training_stats, events,
                   saves>>

\* DualNetworkTrainer.bootstrap, called between two calls of train(): a
\* session of its own, random weights, Saver.save to self.save_file.  The
\* method tests nothing about the trainer or the disk.
Bootstrap ==
    /\ pc \in {"Uninitialized", "Checkpointed"}
    /\ nBoot < MaxBootstraps
    /\ nBoot' = nBoot + 1
    /\ disk' = save_weights(save_file, disk, global_variables_initializer).disk
    /\ UNCHANGED <<save_file, pc, init_from, logdir, num_steps, source_len,
                   consumed, signals, i, sess, stderr, training_stats, events,
                   saves>>

(***************************************************************************)
(* A StatisticsCollector driven by any caller.                             *)
(***************************************************************************)
CostValues == {0, 1}

InitStats ==
    /\ stats = StatisticsCollector
    /\ ret = [kind |-> "constructed", summary |-> NoSummary]
    /\ hist = <<>>
    /\ collected = <<>>

\* a call of report(policy_cost, value_cost, regularization_cost,
\* combined_cost); it returns None
Report ==
    /\ Len(hist) < MaxReports
    /\ \E p \in CostValues, v \in CostValues, r \in CostValues,
          c \in CostValues :
         /\ stats' = report(stats, p, v, r, c)
         /\ hist' = Append(hist, <<p, v, r, c>>)
    /\ ret' = [kind |-> "None", summary |-> NoSummary]
    /\ collected' = <<>>

\* a call of collect(): the summary, or ZeroDivisionError
Collect ==
    LET r == collect(stats) IN
    /\ stats' = r.stats
    /\ ret' = IF r.raised
              THEN [kind |-> "ZeroDivisionError", summary |-> NoSummary]
              ELSE [kind |-> "summary", summary |-> r.summary]
    /\ collected' = hist
    /\ hist' = <<>>

(***************************************************************************)
(* get_default_hyperparams.                                                *)
(***************************************************************************)
BoardSizes == {5, 9, 13, 19}
Keys == {"k", "fc_width", "num_shared_layers", "l2_strength", "momentum"}
OverrideKeys == Keys \cup {"extra"}
OverrideValues == {1, 3}
DefaultL2Strength == 2     \* 2e-4, in units of 1e-4
DefaultMomentum == 9       \* 0.9, in units of 0.1

RECURSIVE RoundLog2From(_, _, _)
\* int(round(math.log(n, 2))) for n = num / den >= 1, searched from e
\* upwards: round(log2 n) = e iff 2^(2e-1) <= n^2 < 2^(2e+1).  (log2 of a
\* rational is never half an integer, so round() meets no tie.)
RoundLog2From(e, num, den) ==
    IF num * num < 2^(2 * e + 1) * den * den THEN e
    ELSE RoundLog2From(e + 1, num, den)

\* _round_power_of_two(num / den)
round_power_of_two(num, den) == 2^RoundLog2From(0, num, den)

\* the defaults derived after the overrides: fc_width follows an overridden k
get_default_hyperparams_from_overridden_k(n, ov) ==
    LET k == IF "k" \in DOMAIN ov THEN ov["k"]
             ELSE round_power_of_two(n * n, 3)
        defaults == [key \in Keys |->
                       CASE key = "k" -> k
                         [] key = "fc_width" -> 2 * k
                         [] key = "num_shared_layers" -> n
                         [] key = "l2_strength" -> DefaultL2Strength
                         [] key = "momentum" -> DefaultMomentum]
    IN  [key \in Keys \cup DOMAIN ov |->
           IF key \in DOMAIN ov THEN ov[key] ELSE defaults[key]]

\* get_default_hyperparams(**ov) with go.N = n: the defaults, then
\* hparams.update(**overrides)
get_default_hyperparams(n, ov) ==
    LET k == round_power_of_two(n * n, 3)
        defaults == [key \in Keys |->
                       CASE key = "k" -> k
                         [] key = "fc_width" -> 2 * k
                         [] key = "num_shared_layers" -> n
                         [] key = "l2_strength" -> DefaultL2Strength
                         [] key = "momentum" -> DefaultMomentum]
    IN  [key \in Keys \cup DOMAIN ov |->
           IF key \in DOMAIN ov THEN ov[key] ELSE defaults[key]]

NoMapping == [key \in {} |-> 0]

InitHparams ==
    /\ N \in BoardSizes
    /\ overrides \in UNION {[ks -> OverrideValues] : ks \in SUBSET OverrideKeys}
    /\ hparams = NoMapping
    /\ hpc = "args"

\* the call get_default_hyperparams(**overrides)
GetDefaultHyperparams ==
    /\ hpc = "args"
    /\ hparams' = get_default_hyperparams(N, overrides)
    /\ hpc' = "returned"
    /\ UNCHANGED <<N, overrides>>

(***************************************************************************)
(* train_ops.  Costs are counted in units of 0.5e-4, so that               *)
(* tf.nn.l2_loss(v) = sum(v ** 2) / 2 stays an integer.                    *)
(***************************************************************************)
VarNames == {<<"conv2d", "kernel">>, <<"conv2d", "bias">>,
             <<"batch_normalization", "gamma">>, <<"dense", "bias">>}
Entries == {<<0>>, <<1>>, <<-2, 1>>}
L2Coefficient == 1     \* the literal 1e-4 of train_ops, in units of 1e-4

\* 'bias' in v.name, a name being the sequence of its components
has_bias(name) == \E j \in 1..Len(name) : name[j] = "bias"

RECURSIVE SumSq(_)
\* the sum of the squared entries of a tensor
SumSq(t) == IF t = <<>> THEN 0 ELSE Head(t) * Head(t) + SumSq(Tail(t))

\* tf.nn.l2_loss(t) = sum(t ** 2) / 2, in units of 1/2
l2_loss(t) == SumSq(t)

RECURSIVE add_n(_, _)
\* tf.add_n over the l2_loss of the variables of tv named in names
add_n(tv, names) ==
    IF names = {} THEN 0
    ELSE LET nm == CHOOSE x \in names : TRUE
         IN  l2_loss(tv[nm]) + add_n(tv, names \ {nm})

\* train_ops(input_tensors, output_tensors, **hp), evaluated on a batch whose
\* policy and value costs are costs.policy_cost and costs.value_cost
train_ops(tv, costs, hp) ==
    LET l2_cost == L2Coefficient *
                     add_n(tv, {nm \in DOMAIN tv : ~has_bias(nm)})
    IN  [policy_cost |-> costs.policy_cost,
         value_cost |-> costs.value_cost,
         l2_cost |-> l2_cost,
         combined_cost |-> costs.policy_cost + costs.value_cost + l2_cost]

L2Strengths == {1, 2, 4}

InitCost ==
    /\ hp_in \in {[get_default_hyperparams(19, NoMapping)
                     EXCEPT !["l2_strength"] = l] : l \in L2Strengths}
    /\ tvars \in [VarNames -> Entries]
    /\ batch_costs \in [policy_cost : {0, 3}, value_cost : {0, 5}]
    /\ train_tensors = <<>>

\* the call train_ops(input_tensors, output_tensors, **hparams) and a run of
\* what it returns
TrainOps ==
    /\ train_tensors = <<>>
    /\ train_tensors' = <<train_ops(tvars, batch_costs, hp_in)>>
    /\ UNCHANGED <<hp_in, tvars, batch_costs>>

(***************************************************************************)
(* The specifications: each part of the program on its own, the other      *)
(* parts at rest.                                                          *)
(***************************************************************************)
RestTrainer ==
    /\ save_file = None
    /\ disk = [p \in Paths |-> NoCkpt]
    /\ pc = "Unused"
    /\ init_from = None
    /\ logdir = None
    /\ num_steps = <<>>
    /\ source_len = 0
    /\ consumed = 0
    /\ signals = 0
    /\ i = 0
    /\ sess = NoSess
    /\ stderr = <<>>
    /\ training_stats = <<>>
    /\ events = <<>>
    /\ saves = 0
    /\ nBoot = 0
RestStats ==
    /\ stats = StatisticsCollector
    /\ ret = [kind |-> "unused", summary |-> NoSummary]
    /\ hist = <<>>
    /\ collected = <<>>
RestHparams ==
    /\ N = 19
    /\ overrides = NoMapping
    /\ hparams = NoMapping
    /\ hpc = "unused"
RestCost ==
    /\ hp_in = NoMapping
    /\ tvars = NoMapping
    /\ batch_costs = [policy_cost |-> 0, value_cost |-> 0]
    /\ train_tensors = <<>>

\* the trainer
Init == InitTrainer /\ RestStats /\ RestHparams /\ RestCost
Next ==
    \/ TrainInit /\ UNCHANGED <<statsVars, hparamVars, costVars>>
    \/ TrainLogSetup /\ UNCHANGED <<statsVars, hparamVars, costVars>>
    \/ TrainStep /\ UNCHANGED <<statsVars, hparamVars, costVars>>
    \/ TrainExhausted /\ UNCHANGED <<statsVars, hparamVars, costVars>>
    \/ TrainLoopEnd /\ UNCHANGED <<statsVars, hparamVars, costVars>>
    \/ Bootstrap /\ UNCHANGED <<statsVars, hparamVars, costVars>>
Spec == Init /\ [][Next]_vars

\* the statistics collector
StatsInit == RestTrainer /\ InitStats /\ RestHparams /\ RestCost
StatsNext ==
    \/ Report /\ UNCHANGED <<trainerVars, hparamVars, costVars>>
    \/ Collect /\ UNCHANGED <<trainerVars, hparamVars, costVars>>
StatsSpec == StatsInit /\ [][StatsNext]_vars

\* the hyperparameter resolver
HparamsInit == RestTrainer /\ RestStats /\ InitHparams /\ RestCost
HparamsNext ==
    GetDefaultHyperparams /\ UNCHANGED <<trainerVars, statsVars, costVars>>
HparamsSpec == HparamsInit /\ [][HparamsNext]_vars

\* the training objective
CostInit == RestTrainer /\ RestStats /\ RestHparams /\ InitCost
CostNext == TrainOps /\ UNCHANGED <<trainerVars, statsVars, hparamVars>>
CostSpec == CostInit /\ [][CostNext]_vars

\* the trainer, with a call of train() that has entered its loop carried on:
\* the loop is synchronous code of one thread, and sess.run returns
LoopNext ==
    (TrainStep \/ TrainExhausted \/ TrainLoopEnd)
        /\ UNCHANGED <<statsVars, hparamVars, costVars>>
FairSpec == Spec /\ WF_vars(LoopNext)

(***************************************************************************)
(* The claims.                                                             *)
(***************************************************************************)
OwnCheckpoint == save_file # None /\ disk[save_file].exists

C2_FinalCheckpoint ==
    /\ pc = "Checkpointed" =>
         /\ saves = 1
         /\ OwnCheckpoint
         /\ \/ disk[save_file] = Ckpt(sess.w, sess.global_step)
            \/ nBoot > 0 /\ disk[save_file] = Ckpt("random", 0)
    /\ pc \in {"Uninitialized", "WeightsLoaded", "Training"} => saves = 0
    /\ saves <= 1

\* C2: train() returned after the source was exhausted on the very first
\* step of a loop that had steps to run, and the checkpoint is the session's
C2_Witness ==
    /\ pc = "Checkpointed"
    /\ signals = 1
    /\ consumed = 0
    /\ num_steps[1] > 0
    /\ saves = 1
    /\ disk[save_file] = Ckpt(sess.w, sess.global_step)

AfterLoop == pc = "Checkpointed" \/ (pc = "Failed" /\ sess # NoSess)

C3_Counts ==
    /\ pc \in {"Training", "Checkpointed"} =>
         /\ consumed <= num_steps[1]
         /\ consumed <= source_len
         /\ i = consumed
    /\ signals <= 1
    /\ signals = 1 => pc # "Training" /\ consumed = source_len
    /\ AfterLoop => consumed = Min(num_steps[1], source_len)

\* C3: the loop never makes more than num_steps steps nor more than the
\* source has batches, stops at the first OutOfRangeError, has made exactly
\* min(num_steps, m) steps when it is over, and, once entered, is over at
\* some time.
C3_LoopTerminates ==
    /\ []C3_Counts
    /\ (pc = "Training") ~> AfterLoop

\* C3: num_steps = 10 against a source of 3 batches: 3 steps
C3_Witness ==
    /\ pc = "Checkpointed"
    /\ num_steps = <<10>>
    /\ source_len = 3
    /\ consumed = 3
    /\ signals = 1

RECURSIVE Column(_, _)
\* the k-th arguments of the calls in h, in order
Column(h, k) ==
    IF h = <<>> THEN <<>> ELSE <<Head(h)[k]>> \o Column(Tail(h), k)

\* a mean [sum, n] is the arithmetic mean of the values vs
IsMeanOf(mean, vs) ==
    /\ mean.n > 0
    /\ Len(vs) > 0
    /\ mean.sum * Len(vs) = Sum(vs) * mean.n

AfterCollect == ret.kind \in {"summary", "ZeroDivisionError"}

\* C4: the four lists have the length of the number of report() calls since
\* the last collect(), and each holds the values reported, in order; a
\* collect() after n >= 1 reports returns the means of those n values and
\* leaves the four lists empty.
C4_ReportCollect ==
    /\ stats.policy_costs = Column(hist, 1)
    /\ stats.value_costs = Column(hist, 2)
    /\ stats.regularization_costs = Column(hist, 3)
    /\ stats.combined_costs = Column(hist, 4)
    /\ AfterCollect /\ Len(collected) >= 1 =>
         /\ ret.kind = "summary"
         /\ IsMeanOf(ret.summary.avg_pol, Column(collected, 1))
         /\ IsMeanOf(ret.summary.avg_val, Column(collected, 2))
         /\ IsMeanOf(ret.summary.avg_reg, Column(collected, 3))
         /\ IsMeanOf(ret.summary.avg_cost, Column(collected, 4))
         /\ ret.summary.avg_pol.n = Len(collected)
         /\ stats = StatisticsCollector

\* C4: a collect() has aggregated two different reports
C4_Witness ==
    /\ ret.kind = "summary"
    /\ Len(collected) = 2
    /\ collected[1] = <<0, 1, 0, 1>>
    /\ collected[2] = <<1, 1, 0, 0>>
    /\ ret.summary.avg_pol = [sum |-> 1, n |-> 2]
    /\ stats = StatisticsCollector

\* C5: a collect() with no report() since the last collect() or the
\* construction raises ZeroDivisionError, returns no summary, and leaves the
\* four lists empty; and collect() raises in no other case.
C5_EmptyCollectFails ==
    /\ AfterCollect /\ collected = <<>> =>
         /\ ret.kind = "ZeroDivisionError"
         /\ ret.summary = NoSummary
         /\ stats = StatisticsCollector
    /\ ret.kind = "ZeroDivisionError" => collected = <<>>

\* C5: collect() has raised on an empty accumulator
C5_Witness ==
    /\ ret.kind = "ZeroDivisionError"
    /\ collected = <<>>
    /\ stats = StatisticsCollector

\* the flushes due in the first n indices of the loop
FlushesIn(n) == (n + FlushEvery - 1) \div FlushEvery

\* C6: with logging, the log has received one pair of records (the statistics
\* and the weight snapshot) for each successful step whose index is a
\* multiple of 100 and none else, the two of a pair with the same step, which
\* is the global_step fetched in that step (the counter before or after its
\* update), and the lists hold the reports made since the last flush;
\* without logging there is no collector and the log receives nothing.
C6_FlushEvery100 ==
    /\ logdir = None => training_stats = <<>> /\ events = <<>>
    /\ logdir # None =>
         /\ Len(events) = 2 * FlushesIn(i)
         /\ \A j \in 1..FlushesIn(i) :
              /\ events[2 * j - 1].kind = "accuracy_summaries"
              /\ events[2 * j].kind = "weight_summaries"
              /\ events[2 * j - 1].global_step = events[2 * j].global_step
              /\ events[2 * j].global_step - (sess.global_step - i)
                    \in {FlushEvery * (j - 1), FlushEvery * (j - 1) + 1}
              /\ events[2 * j].weights.global_step - (sess.global_step - i)
                    = FlushEvery * (j - 1) + 1
         /\ training_stats # <<>> =>
              Len(training_stats[1].policy_costs) =
                  IF i = 0 THEN 0 ELSE (i - 1) % FlushEvery

\* C6: a logged train() of more than 200 steps has flushed three times
C6_Witness ==
    /\ pc = "Checkpointed"
    /\ logdir # None
    /\ i > 2 * FlushEvery
    /\ Len(events) = 6
    /\ events[5].global_step = events[6].global_step

\* C7, as claimed: bootstrap() in the state Uninitialized writes a checkpoint
\* of random weights to the save location, and in any later state it leaves
\* the checkpoint at the save location as it is.
C7_BootstrapOnlyUninitialized ==
    [][nBoot' = nBoot + 1 /\ save_file # None =>
         IF pc = "Uninitialized"
         THEN disk'[save_file] = Ckpt("random", 0)
         ELSE disk' = disk]_vars

\* C7, amended: bootstrap() tests no state: whenever it is called on a
\* trainer with a save location, it writes a checkpoint of random weights
\* with global_step 0 there, in place of any checkpoint found, and leaves the
\* trainer's session and state as they are.
C7_BootstrapUnguarded ==
    [][nBoot' = nBoot + 1 /\ save_file # None =>
         /\ disk'[save_file] = Ckpt("random", 0)
         /\ \A p \in Paths \ {save_file} : disk'[p] = disk[p]
         /\ sess' = sess
         /\ pc' = pc]_vars

\* C7: a bootstrap() after train() has replaced the trained checkpoint
C7_Witness ==
    /\ pc = "Checkpointed"
    /\ nBoot = 1
    /\ save_file # None
    /\ sess.global_step > 0
    /\ disk[save_file] = Ckpt("random", 0)

\* the sum of the squared entries of the variables whose name has no 'bias'
SumSqNoBias(tv) ==
    LET names == {nm \in DOMAIN tv : \A j \in 1..Len(nm) : nm[j] # "bias"}
        RECURSIVE Over(_)
        Over(S) == IF S = {} THEN 0
                   ELSE LET nm == CHOOSE x \in S : TRUE
                        IN  SumSq(tv[nm]) + Over(S \ {nm})
    IN  Over(names)

\* C8, as claimed: l2_cost is l2_strength times the sum of the squared
\* entries of the variables that are no bias (in units of 0.5e-4: twice
\* l2_strength, counted in 1e-4, times the sum), two hyperparameter sets that
\* differ only in l2_strength give l2_cost in the ratio of the two
\* l2_strength, and combined_cost = policy_cost + value_cost + l2_cost.
C8_L2CostUsesL2Strength ==
    train_tensors # <<>> =>
        LET t == train_tensors[1] IN
        /\ t.l2_cost = 2 * hp_in["l2_strength"] * SumSqNoBias(tvars)
        /\ \A l \in L2Strengths :
             train_ops(tvars, batch_costs,
                       [hp_in EXCEPT !["l2_strength"] = l]).l2_cost
                 * hp_in["l2_strength"] = t.l2_cost * l
        /\ t.combined_cost = t.policy_cost + t.value_cost + t.l2_cost

\* the power of two p with |log2 p - log2 (num / den)| <= 1/2
NearestPowerOfTwo(num, den) ==
    CHOOSE p \in {2^e : e \in 0..12} :
        /\ p * p * den * den <= 2 * num * num
        /\ num * num <= 2 * p * p * den * den

\* the default of a key on a board of size n
DefaultOf(key, n) ==
    CASE key = "k" -> NearestPowerOfTwo(n * n, 3)
      [] key = "fc_width" -> 2 * NearestPowerOfTwo(n * n, 3)
      [] key = "num_shared_layers" -> n
      [] key = "l2_strength" -> 2
      [] key = "momentum" -> 9

\* C9: the mapping returned has the five keys and those of the overrides,
\* each overridden key with the overriding value, each other key with its
\* default from the board size alone (so fc_width is twice the default k
\* also when k is overridden); without overrides it has exactly five keys.
C9_OverridesVerbatim ==
    hpc = "returned" =>
        /\ DOMAIN hparams = Keys \cup DOMAIN overrides
        /\ \A key \in DOMAIN overrides : hparams[key] = overrides[key]
        /\ \A key \in Keys \ DOMAIN overrides : hparams[key] = DefaultOf(key, N)
        /\ overrides = NoMapping => Cardinality(DOMAIN hparams) = 5
        /\ N = 19 /\ "k" \notin DOMAIN overrides => hparams["k"] = 128

\* C9: k alone is overridden on a 19x19 board, and fc_width is still 256
C9_Witness ==
    /\ hpc = "returned"
    /\ N = 19
    /\ DOMAIN overrides = {"k"}
    /\ overrides["k"] = 1
    /\ hparams["k"] = 1
    /\ hparams["fc_width"] = 256

\* global_step of the weights the session was initialized with
StartOf(w) ==
    CASE w = "random" -> 0
      [] w = "own" -> OwnSteps
      [] w = "older" -> OlderSteps
      [] OTHER -> 0

C10_Counter ==
    /\ sess # NoSess => sess.global_step = StartOf(sess.w) + consumed
    /\ \A j \in 1..Len(events) : \A k \in 1..Len(events) :
         /\ j + 1 < k => events[j].global_step < events[k].global_step
         /\ j < k => events[j].global_step <= events[k].global_step

\* C10: global_step is 0 after a random initialization and the saved value
\* after a restore, grows by exactly 1 in each successful step and never
\* falls during train(), is the value save_weights() writes to the
\* checkpoint, and the steps of successive flushes grow strictly.
C10_GlobalStepMonotonic ==
    [][/\ C10_Counter'
       /\ pc = "Uninitialized" /\ pc' = "WeightsLoaded" =>
            sess'.global_step =
                IF OwnCheckpoint THEN disk[save_file].global_step
                ELSE IF init_from' # None THEN disk[init_from'].global_step
                ELSE 0
       /\ pc = "Training" =>
            /\ sess'.global_step >= sess.global_step
            /\ sess'.global_step - sess.global_step = consumed' - consumed
       /\ pc = "Training" /\ pc' = "Checkpointed" =>
            disk'[save_file].global_step = sess.global_step]_vars

\* C10: a trainer that restored its own checkpoint has flushed twice while
\* training on from the saved counter and has written the counter back
C10_Witness ==
    /\ pc = "Checkpointed"
    /\ sess.w = "own"
    /\ consumed > FlushEvery
    /\ Len(events) >= 4
    /\ events[1].global_step \in {OwnSteps, OwnSteps + 1}
    /\ events[3].global_step > events[1].global_step
    /\ disk[save_file].global_step = OwnSteps + consumed

\* train() has failed in collect(): not in initialize_weights (the session
\* has its weights) and not in save_weights (nothing was saved)
CollectRaisedInTrain == pc = "Failed" /\ sess # NoSess /\ saves = 0

\* C11: train() never calls collect() on an empty accumulator: collect()
\* never raises in train(), and every summary the log received aggregates at
\* least one report in each of the four lists; without logging there is no
\* collect() at all.
C11_CollectNeverEmpty ==
    /\ ~CollectRaisedInTrain
    /\ \A j \in 1..Len(events) :
         events[j].kind = "accuracy_summaries" =>
             /\ events[j].summary.avg_pol.n >= 1
             /\ events[j].summary.avg_val.n >= 1
             /\ events[j].summary.avg_reg.n >= 1
             /\ events[j].summary.avg_cost.n >= 1
    /\ logdir = None => events = <<>>

\* C11: the flush at loop index 0, of a collector that was empty before the
\* step, has aggregated the one report of that step
C11_Witness ==
    /\ pc = "Training"
    /\ logdir # None
    /\ i = 1
    /\ Len(events) = 2
    /\ events[1].summary.avg_pol.n = 1
    /\ training_stats[1] = StatisticsCollector

\* the sum of the integers a..b
RangeSum(a, b) == ((a + b) * (b - a + 1)) \div 2

RECURSIVE Covered(_)
\* the reports the summaries of the log ev aggregate
Covered(ev) ==
    IF ev = <<>> THEN 0
    ELSE (IF Head(ev).kind = "accuracy_summaries"
          THEN Head(ev).summary.avg_pol.n ELSE 0) + Covered(Tail(ev))

\* C12: with logging, the first summary aggregates the first step alone and
\* the j-th, j > 1, the hundred steps after those of the (j - 1)-th, so no
\* step is in two summaries; the lists hold the steps made since the last
\* flush, which no summary has; after i >= 1 steps the summaries cover
\* 1 + 100 * floor((i - 1) / 100) steps, and what follows the loop adds no
\* summary (the log has two records for each flush due in the loop).
C12_NoFinalFlush ==
    logdir # None =>
        /\ \A j \in 1..FlushesIn(i) :
             LET first == IF j = 1 THEN 1 ELSE FlushEvery * (j - 2) + 2
                 last == FlushEvery * (j - 1) + 1
                 su == events[2 * j - 1].summary
             IN  /\ su.avg_pol = [sum |-> RangeSum(first, last),
                                  n |-> last - first + 1]
                 /\ su.avg_val = su.avg_pol
                 /\ su.avg_reg = su.avg_pol
                 /\ su.avg_cost = [sum |-> 3 * RangeSum(first, last),
                                   n |-> last - first + 1]
                 /\ su.avg_pol.n = IF j = 1 THEN 1 ELSE FlushEvery
        /\ Covered(events) =
             IF i = 0 THEN 0 ELSE 1 + FlushEvery * ((i - 1) \div FlushEvery)
        /\ training_stats # <<>> =>
             LET left == training_stats[1].policy_costs IN
             /\ Covered(events) + Len(left) = i
             /\ \A k \in 1..Len(left) : left[k] = Covered(events) + k
        /\ AfterLoop => Len(events) = 2 * FlushesIn(consumed)

\* C12: train() has returned after 202 steps: three summaries of 1, 100 and
\* 100 steps, and the costs of the last step in no summary
C12_Witness ==
    /\ pc = "Checkpointed"
    /\ logdir # None
    /\ consumed = 2 * FlushEvery + 2
    /\ Len(events) = 6
    /\ events[1].summary.avg_pol.n = 1
    /\ events[3].summary.avg_pol.n = FlushEvery
    /\ events[5].summary.avg_pol.n = FlushEvery
    /\ Covered(events) = 2 * FlushEvery + 1
    /\ training_stats[1].policy_costs = <<2 * FlushEvery + 2>>

====
